---- MODULE Spec2Model ----
(***************************************************************************)
(* Model of the resource optimizer (optimizer.py: ResourceOptimizerUI) and *)
(* of the schedule builder (scheduler.py: ScheduleBuilderUI).              *)
(*                                                                         *)
(* Numbers.  Hours, costs and proficiency levels are integers.  A fitness  *)
(* is the exact rational 10000 / (1 + penalty + cost/1000 + 100*mism),     *)
(* held as a reduced fraction [n, d] with d > 0.  Dates are day numbers    *)
(* counted from a Monday, so that weekday(d) = d % 7 (0 = Monday).         *)
(***************************************************************************)
EXTENDS Integers, Sequences, FiniteSets, TLC

VARIABLES
    tasks,                 \* self.tasks
    employees,             \* self.employees
    calendar_config,       \* self.calendar_config
    POP_SIZE,              \* self.POP_SIZE
    GENERATIONS,           \* self.GENERATIONS
    TOURNAMENT_SIZE,       \* self.TOURNAMENT_SIZE
    pc,                    \* where the optimizer object is
    gen,                   \* loop index of optimize
    pop,                   \* local pop of optimize
    offspring,             \* local offspring of optimize
    hof,                   \* tools.HallOfFame(1): a list of at most one individual
    logbook,               \* local logbook of optimize
    progress_callback,     \* whether optimize was given a progress_callback
    progress,              \* the calls progress_callback has received
    optimization_history,  \* self.optimization_history
    outcome,               \* what the last call gave its caller
    analysis,              \* result of get_assignment_analysis
    assignment,            \* argument of build_schedule
    spc,                   \* where the schedule builder is
    schedule,              \* ScheduleBuilderUI.schedule
    emp_schedules,         \* local emp_schedules of build_schedule: employee id -> cursor
    ai,                    \* index of the assignment build_schedule works on
    current_date,          \* local current_date of _calculate_end_date
    work_days_completed,   \* local work_days_completed of _calculate_end_date
    metrics                \* what calculate_project_metrics returned since the last
                           \* build_schedule call

vars == <<tasks, employees, calendar_config, POP_SIZE, GENERATIONS, TOURNAMENT_SIZE,
          pc, gen, pop, offspring, hof, logbook, progress_callback, progress,
          optimization_history, outcome,
          analysis, assignment, spc, schedule, emp_schedules, ai, current_date,
          work_days_completed, metrics>>

gaVars == <<POP_SIZE, GENERATIONS, TOURNAMENT_SIZE, gen, pop, offspring, hof, logbook,
            progress_callback, progress>>

schedVars == <<calendar_config, analysis, assignment, spc, schedule, emp_schedules, ai,
               current_date, work_days_completed, metrics>>

-----------------------------------------------------------------------------
(* Bounds of the model *)

\* longest task list drawn for the direct calls
MaxTasks == 2

\* number of direct _fitness calls followed on one optimizer object
MaxEvals == 2

-----------------------------------------------------------------------------
(* Constants of the program *)

MISSING_SKILL_PENALTY == 500

UNDERQUALIFIED_PENALTY == 300

SENIOR_ON_SIMPLE_PENALTY == 100

SENIOR_ON_HIGH_BONUS == 50

SIMPLE_TASK_HOURS == 20

SENIOR_COST_SIMPLE == 1500

SENIOR_COST_HIGH == 1400

MISMATCH_WEIGHT == 100

BASE_FITNESS == 10000

COST_SCALE == 1000

-----------------------------------------------------------------------------
(* Exact rationals *)

Abs(x) == IF x < 0 THEN -x ELSE x

RECURSIVE GCD(_, _)
GCD(a, b) == IF b = 0 THEN a ELSE GCD(b, a % b)

\* the fraction n/d (d # 0) in lowest terms with a positive denominator
Rat(n, d) ==
    LET g == GCD(Abs(n), Abs(d))
        s == IF d < 0 THEN -1 ELSE 1
    IN [n |-> s * (n \div g), d |-> s * (d \div g)]

RatInt(k) == [n |-> k, d |-> 1]

RatLess(a, b) == a.n * b.d < b.n * a.d

RatLeq(a, b) == a.n * b.d <= b.n * a.d

RatAdd(a, b) == Rat(a.n * b.d + b.n * a.d, a.d * b.d)

RatDivInt(a, k) == Rat(a.n, a.d * k)

-----------------------------------------------------------------------------
(* Input data.  A task is [id, hours, priority, skills]: skills is the list *)
(* of required skill tags.  An employee is [id, daily_hours, cost_per_hour, *)
(* skills]: skills maps the tags the employee has to a level 0..10.         *)
(*                                                                         *)
(* skill_match_score is a binary64 float, the sum of level / 10.0.  A      *)
(* float x of that sum is held as [t, dev] with                            *)
(*     x = t/10 + dev / (10 * 2^56),                                       *)
(* t the exact number of tenths and dev the rounding error so far: every   *)
(* double in [2^-4, 8) is a multiple of 2^-56, and 2^56 % 1280 = 256.      *)

NoSkills == [s \in {} |-> 0]

TaskPool ==
    { [hours |-> 26, priority |-> "high",   skills |-> <<>>],
      [hours |-> 10, priority |-> "medium", skills |-> <<>>],
      [hours |-> 28, priority |-> "high",   skills |-> <<"backend">>],
      [hours |-> 40, priority |-> "low",    skills |-> <<"backend", "devops">>],
      [hours |-> 10, priority |-> "high",   skills |-> <<"devops">>],
      [hours |-> 10, priority |-> "high",   skills |-> <<>>] }

EmployeePool ==
    << [id |-> 201, daily_hours |-> 8, cost_per_hour |-> 1500, skills |-> NoSkills],
       [id |-> 202, daily_hours |-> 8, cost_per_hour |-> 1000,
        skills |-> [s \in {"backend"} |-> 4]],
       [id |-> 203, daily_hours |-> 6, cost_per_hour |-> 1750,
        skills |-> [s \in {"backend", "devops"} |-> 10]],
       [id |-> 204, daily_hours |-> 8, cost_per_hour |-> 1900,
        skills |-> [s \in {"backend", "devops"} |-> IF s = "backend" THEN 5 ELSE 0]] >>

\* a task that requires three skills, and an employee who has the three at
\* levels that add up to half of what is required
AllRoundTask == [hours |-> 30, priority |-> "low", skills |-> <<"backend", "devops", "qa">>]

Generalist ==
    [id |-> 207, daily_hours |-> 8, cost_per_hour |-> 1200,
     skills |-> [s \in {"backend", "devops", "qa"} |->
                    IF s = "backend" THEN 6 ELSE IF s = "devops" THEN 7 ELSE 2]]

\* a task list built from templates, with unique ids in list order (ids differ
\* from list positions)
WithIds(templates) ==
    [i \in DOMAIN templates |->
        [id |-> 100 + i, hours |-> templates[i].hours,
         priority |-> templates[i].priority, skills |-> templates[i].skills]]

TaskLists(maxLen) ==
    UNION { { WithIds(t) : t \in [1..k -> TaskPool] } : k \in 0..maxLen }

\* the empty list, every single employee and every pair of different employees
\* (in pool order)
EmployeeLists ==
    {<<>>}
    \cup { <<EmployeePool[a]>> : a \in DOMAIN EmployeePool }
    \cup { <<EmployeePool[ab[1]], EmployeePool[ab[2]]>> :
                ab \in {x \in (DOMAIN EmployeePool) \X (DOMAIN EmployeePool) : x[1] < x[2]} }

\* every individual of the given length with genes in 0..count-1
Individuals(length, count) == [1..length -> 0..(count - 1)]

-----------------------------------------------------------------------------
(* _fitness *)

RECURSIVE SkillMatchScore10(_, _, _)
\* ten times skill_match_score after the first k required skills
SkillMatchScore10(task, emp, k) ==
    IF k = 0 THEN 0
    ELSE SkillMatchScore10(task, emp, k - 1)
         + (IF task.skills[k] \in DOMAIN emp.skills THEN emp.skills[task.skills[k]] ELSE 0)

\* the spacing of the doubles around t/10 + dev/(10 * 2^56), in units of
\* 2^-56: 1 in [1/16, 1/8), doubling with every power of two up to [4, 8)
FloatUlp(t, dev) ==
    IF t > 40 \/ (t = 40 /\ dev >= 0) THEN 64
    ELSE IF t > 20 \/ (t = 20 /\ dev >= 0) THEN 32
    ELSE IF t > 10 \/ (t = 10 /\ dev >= 0) THEN 16
    ELSE IF t > 5 \/ (t = 5 /\ dev >= 0) THEN 8
    ELSE IF t >= 3 THEN 4
    ELSE IF t >= 2 THEN 2
    ELSE 1

\* the double nearest to the exact value t/10 + dev/(10 * 2^56), ties to the
\* even one: low is ten times what lies above the double below
FloatRound(t, dev) ==
    LET u == FloatUlp(t, dev)
        y == (256 * t + dev) % (20 * u)
        low == y % (10 * u)
    IN IF low < 5 * u \/ (low = 5 * u /\ y < 10 * u)
       THEN [t |-> t, dev |-> dev - low]
       ELSE [t |-> t, dev |-> dev + 10 * u - low]

\* level / 10.0
FloatTenths(level) == FloatRound(level, 0)

\* a + b in binary64
FloatAdd(a, b) == FloatRound(a.t + b.t, a.dev + b.dev)

RECURSIVE SkillMatchScore(_, _, _)
\* skill_match_score after the first k required skills
SkillMatchScore(task, emp, k) ==
    IF k = 0 THEN [t |-> 0, dev |-> 0]
    ELSE IF task.skills[k] \in DOMAIN emp.skills
         THEN FloatAdd(SkillMatchScore(task, emp, k - 1),
                       FloatTenths(emp.skills[task.skills[k]]))
         ELSE SkillMatchScore(task, emp, k - 1)

\* skill_match_score < len(task.get("skills", [])) * 0.5
Underqualified(task, emp) ==
    LET score == SkillMatchScore(task, emp, Len(task.skills))
    IN score.t < 5 * Len(task.skills)
       \/ (score.t = 5 * Len(task.skills) /\ score.dev < 0)

\* the required skills of the task that the employee lacks
MissingCount(task, emp) ==
    Cardinality({k \in DOMAIN task.skills : task.skills[k] \notin DOMAIN emp.skills})

\* what one gene adds to total_penalty
GenePenalty(task, emp) ==
    MISSING_SKILL_PENALTY * MissingCount(task, emp)
    + (IF Underqualified(task, emp) THEN UNDERQUALIFIED_PENALTY ELSE 0)
    + (IF task.hours < SIMPLE_TASK_HOURS /\ emp.cost_per_hour > SENIOR_COST_SIMPLE
       THEN SENIOR_ON_SIMPLE_PENALTY ELSE 0)
    - (IF task.priority = "high" /\ emp.cost_per_hour > SENIOR_COST_HIGH
       THEN SENIOR_ON_HIGH_BONUS ELSE 0)

RECURSIVE Accumulate(_, _, _, _)
\* total_penalty, total_cost and skill_mismatches after the first k genes
Accumulate(individual, ts, es, k) ==
    IF k = 0 THEN [penalty |-> 0, cost |-> 0, skill_mismatches |-> 0]
    ELSE LET acc == Accumulate(individual, ts, es, k - 1)
             emp_idx == individual[k]
         IN IF emp_idx >= Len(es) THEN acc
            ELSE LET task == ts[k]
                     emp == es[emp_idx + 1]
                 IN [penalty |-> acc.penalty + GenePenalty(task, emp),
                     cost |-> acc.cost + task.hours * emp.cost_per_hour,
                     skill_mismatches |-> acc.skill_mismatches + MissingCount(task, emp)]

\* 1000 times the denominator of fitness_value
Denominator1000(acc) ==
    COST_SCALE * (1 + acc.penalty + acc.skill_mismatches * MISMATCH_WEIGHT) + acc.cost

\* fitness_value for accumulated totals with a non-zero denominator
FitnessValue(acc) == Rat(BASE_FITNESS * COST_SCALE, Denominator1000(acc))

\* the call _fitness(individual): what it returns or raises, and the metrics
\* record it appends to optimization_history (none on the early return)
Fitness(individual, ts, es) ==
    IF Len(ts) = 0 \/ Len(es) = 0
    THEN [raised |-> "none", value |-> RatInt(0), logged |-> <<>>]
    ELSE LET acc == Accumulate(individual, ts, es, Len(individual))
         IN IF Denominator1000(acc) = 0
            THEN [raised |-> "ZeroDivisionError", value |-> RatInt(0), logged |-> <<>>]
            ELSE [raised |-> "none", value |-> FitnessValue(acc),
                  logged |-> << [fitness |-> FitnessValue(acc), penalty |-> acc.penalty,
                                 cost |-> acc.cost,
                                 skill_mismatches |-> acc.skill_mismatches] >>]

-----------------------------------------------------------------------------
(* The genetic algorithm.  An individual is [genes, fitness]; fitness is    *)
(* NoFitness while the individual's fitness values are empty (invalid).     *)

NoFitness == [n |-> 0, d |-> 0]

\* toolbox.attr_employee: random.randint(0, len(self.employees) - 1)
AttrEmployee == 0..(Len(employees) - 1)

\* toolbox.individual: len(self.tasks) genes drawn by attr_employee, no fitness
NewIndividuals ==
    { [genes |-> g, fitness |-> NoFitness] : g \in [1..Len(tasks) -> AttrEmployee] }

\* toolbox.population(n)
NewPopulations(n) == [1..n -> NewIndividuals]

\* tools.cxTwoPoint draws cxpoint2 with random.randint(1, size - 1), which
\* raises ValueError when the range is empty
CxRaises(size) == size - 1 < 1

\* the cut points (cxpoint1, cxpoint2) of cxTwoPoint after its ordering step
CutPoints(size) ==
    { IF c[2] >= c[1] THEN <<c[1], c[2] + 1>> ELSE <<c[2], c[1]>> :
          c \in (1..size) \X (1..(size - 1)) }

\* x with the slice [cxpoint1:cxpoint2] (0-based, end excluded) taken from y
SwapSlice(x, y, cut) ==
    [i \in DOMAIN x |-> IF cut[1] < i /\ i <= cut[2] THEN y[i] ELSE x[i]]

\* toolbox.mate followed by del fitness.values on both children
Mate(ind1, ind2) ==
    { << [genes |-> SwapSlice(ind1.genes, ind2.genes, cut), fitness |-> NoFitness],
         [genes |-> SwapSlice(ind2.genes, ind1.genes, cut), fitness |-> NoFitness] >> :
          cut \in CutPoints(Len(ind1.genes)) }

\* mutant: up given as the employee count, one past the last index
MutateUpIsCount == Len(employees)

\* the highest gene value mutUniformInt may draw (up, inclusive)
MutateUp == Len(employees) - 1

\* toolbox.mutate (mutUniformInt, low = 0) followed by del fitness.values:
\* every gene is kept or redrawn from low..up
Mutate(ind) ==
    { [genes |-> g, fitness |-> NoFitness] :
          g \in { h \in [DOMAIN ind.genes -> (0..MutateUp) \cup {ind.genes[k] : k \in DOMAIN ind.genes}] :
                      \A i \in DOMAIN h : h[i] = ind.genes[i] \/ h[i] \in 0..MutateUp } }

RECURSIVE MateStage(_, _)
\* the offspring lists after varAnd's crossover loop has handled the first p
\* pairs (offspring[2p-2], offspring[2p-1] in 0-based terms)
MateStage(off, p) ==
    IF p = 0 THEN {off}
    ELSE LET before == MateStage(off, p - 1)
         IN before
            \cup (IF CxRaises(Len(tasks)) THEN {}
                  ELSE UNION { { [o EXCEPT ![2 * p - 1] = m[1], ![2 * p] = m[2]] :
                                     m \in Mate(o[2 * p - 1], o[2 * p]) } : o \in before })

RECURSIVE MutateStage(_, _)
\* the offspring lists after varAnd's mutation loop has handled the first k
MutateStage(offs, k) ==
    IF k = 0 THEN offs
    ELSE LET before == MutateStage(offs, k - 1)
         IN before \cup UNION { { [o EXCEPT ![k] = m] : m \in Mutate(o[k]) } : o \in before }

\* algorithms.varAnd(pop, toolbox, cxpb, mutpb) when no operator raises
VarAndResults(population) ==
    MutateStage(MateStage(population, Len(population) \div 2), Len(population))

RECURSIVE EvaluateAll(_, _)
\* the loop over zip(fits, offspring): the lazy map evaluates individual k,
\* then its fitness is assigned; an exception leaves the loop
EvaluateAll(off, k) ==
    IF k = 0 THEN [offspring |-> off, logged |-> <<>>, raised |-> "none"]
    ELSE LET before == EvaluateAll(off, k - 1)
             r == Fitness(off[k].genes, tasks, employees)
         IN IF before.raised # "none" THEN before
            ELSE IF r.raised # "none"
                 THEN [before EXCEPT !.raised = r.raised]
                 ELSE [offspring |-> [before.offspring EXCEPT ![k].fitness = r.value],
                       logged |-> before.logged \o r.logged,
                       raised |-> "none"]

RECURSIVE FirstBest(_, _, _)
\* max(aspirants, key=fitness): the first aspirant no later one exceeds
FirstBest(inds, draws, k) ==
    IF k = 1 THEN draws[1]
    ELSE LET best == FirstBest(inds, draws, k - 1)
         IN IF RatLess(inds[best].fitness, inds[draws[k]].fitness) THEN draws[k] ELSE best

\* the individuals one tournament can return: tournsize draws with replacement
Tournament(inds, tournsize) ==
    { inds[FirstBest(inds, draws, tournsize)] : draws \in [1..tournsize -> DOMAIN inds] }

\* tools.selTournament(individuals, k, tournsize)
SelTournament(inds, k, tournsize) == [1..k -> Tournament(inds, tournsize)]

\* mutant: the hall keeps the best of the latest population, not the best ever
HofUpdateLatestBest(h, population, k) ==
    IF k = 0 THEN h
    ELSE << population[CHOOSE i \in 1..k :
                          \A j \in 1..k : RatLeq(population[j].fitness, population[i].fitness)] >>

RECURSIVE HofUpdate(_, _, _)
\* HallOfFame(1).update(population) after the first k individuals: the first
\* individual fills an empty hall; later a strictly fitter individual that is
\* not equal to the stored one replaces it
HofUpdate(h, population, k) ==
    IF k = 0 THEN h
    ELSE LET before == HofUpdate(h, population, k - 1)
             ind == population[k]
         IN IF Len(before) = 0 THEN <<population[1]>>
            ELSE IF RatLess(before[1].fitness, ind.fitness) /\ ind.genes # before[1].genes
                 THEN <<ind>>
                 ELSE before

RECURSIVE SumFitness(_, _)
SumFitness(population, k) ==
    IF k = 0 THEN RatInt(0)
    ELSE RatAdd(SumFitness(population, k - 1), population[k].fitness)

MinFitness(population) ==
    CHOOSE f \in {population[i].fitness : i \in DOMAIN population} :
        \A i \in DOMAIN population : RatLeq(f, population[i].fitness)

MaxFitness(population) ==
    CHOOSE f \in {population[i].fitness : i \in DOMAIN population} :
        \A i \in DOMAIN population : RatLeq(population[i].fitness, f)

\* stats.compile(pop) and the logbook record of one generation
Record(g, nevals, population) ==
    [gen |-> g, nevals |-> nevals,
     avg |-> RatDivInt(SumFitness(population, Len(population)), Len(population)),
     min |-> MinFitness(population),
     max |-> MaxFitness(population)]

-----------------------------------------------------------------------------
(* States shared by the specifications *)

NoCalendar == [start_date |-> 0, work_days_per_week |-> {}, holidays |-> {}]

NoOutcome == [call |-> "none"]

\* calculate_project_metrics has not been called
NoMetrics == [called |-> FALSE]

\* an optimizer object after __init__, before setup_ga_parameters
OptimizerConstructed ==
    /\ POP_SIZE = 0 /\ GENERATIONS = 0 /\ TOURNAMENT_SIZE = 0
    /\ gen = 0 /\ pop = <<>> /\ offspring = <<>> /\ hof = <<>> /\ logbook = <<>>
    /\ progress_callback = FALSE /\ progress = <<>>
    /\ optimization_history = <<>>
    /\ outcome = NoOutcome

\* a schedule builder after __init__
BuilderConstructed ==
    /\ analysis = <<>> /\ assignment = <<>> /\ spc = "idle" /\ schedule = <<>>
    /\ emp_schedules = <<>> /\ ai = 0 /\ current_date = 0 /\ work_days_completed = 0
    /\ metrics = NoMetrics

-----------------------------------------------------------------------------
(* Direct calls of _fitness on an optimizer object *)

InitFit ==
    /\ tasks \in TaskLists(MaxTasks) \cup {WithIds(<<AllRoundTask>>)}
    /\ employees \in EmployeeLists \cup {<<Generalist>>}
    /\ calendar_config = NoCalendar
    /\ pc = "direct"
    /\ OptimizerConstructed
    /\ BuilderConstructed

\* one call self._fitness(individual) from outside optimize; a gene may be
\* one past the last employee index
FitnessCall ==
    /\ pc = "direct"
    /\ Len(optimization_history) < MaxEvals
    /\ \E individual \in Individuals(Len(tasks), Len(employees) + 1) :
          LET r == Fitness(individual, tasks, employees)
          IN /\ optimization_history' = optimization_history \o r.logged
             /\ outcome' = [call |-> "_fitness", individual |-> individual,
                            raised |-> r.raised, value |-> r.value]
    /\ UNCHANGED <<tasks, employees, pc, gaVars, schedVars>>

NextFit == FitnessCall

SpecFit == InitFit /\ [][NextFit]_vars

-----------------------------------------------------------------------------
(* One optimizer object: setup_ga_parameters, then optimize *)

\* largest generation count configured
MaxGenerations == 2

PopSizes == {2}

TournamentSizes == {1, 3}

GaTaskLists ==
    { <<>>,
      WithIds(<< [hours |-> 10, priority |-> "medium", skills |-> <<>>] >>),
      WithIds(<< [hours |-> 26, priority |-> "high", skills |-> <<>>],
                 [hours |-> 10, priority |-> "medium", skills |-> <<>>] >>),
      WithIds(<< [hours |-> 10, priority |-> "high", skills |-> <<>>],
                 [hours |-> 10, priority |-> "medium", skills |-> <<>>] >>) }

GaEmployeeLists == { <<>>, SubSeq(EmployeePool, 1, 2) }

Init ==
    /\ tasks \in GaTaskLists
    /\ employees \in GaEmployeeLists
    /\ calendar_config = NoCalendar
    /\ pc = "constructed"
    /\ OptimizerConstructed
    /\ BuilderConstructed

\* setup_ga_parameters with a non-empty employee list
SetupGaParameters ==
    /\ pc = "constructed"
    /\ Len(employees) > 0
    /\ POP_SIZE' \in PopSizes
    /\ GENERATIONS' \in 0..MaxGenerations
    /\ TOURNAMENT_SIZE' \in TournamentSizes
    /\ pc' = "ready"
    /\ outcome' = [call |-> "setup_ga_parameters", raised |-> "none"]
    /\ UNCHANGED <<tasks, employees, gen, pop, offspring, hof, logbook,
                   progress_callback, progress, optimization_history, schedVars>>

\* setup_ga_parameters with no employees: the parameters are stored, then
\* _setup_genetic_algorithm raises ValueError
SetupGaParametersRaises ==
    /\ pc = "constructed"
    /\ Len(employees) = 0
    /\ POP_SIZE' \in PopSizes
    /\ GENERATIONS' \in 0..MaxGenerations
    /\ TOURNAMENT_SIZE' \in TournamentSizes
    /\ pc' = "setup_failed"
    /\ outcome' = [call |-> "setup_ga_parameters", raised |-> "ValueError"]
    /\ UNCHANGED <<tasks, employees, gen, pop, offspring, hof, logbook,
                   progress_callback, progress, optimization_history, schedVars>>

\* mutant: the population is created before the inputs are tested
OptimizeEmptyAfterPopulation ==
    /\ pc \in {"ready", "setup_failed"}
    /\ Len(tasks) = 0 \/ Len(employees) = 0
    /\ pop' \in NewPopulations(POP_SIZE)
    /\ pc' = "returned"
    /\ outcome' = [call |-> "optimize", raised |-> "none", best_solution |-> <<>>,
                   logbook |-> <<>>, none |-> TRUE]
    /\ UNCHANGED <<tasks, employees, POP_SIZE, GENERATIONS, TOURNAMENT_SIZE, gen,
                   offspring, hof, logbook, progress_callback, progress,
                   optimization_history, schedVars>>

\* optimize with no tasks or no employees: return None, None
OptimizeEmpty ==
    /\ pc \in {"ready", "setup_failed"}
    /\ Len(tasks) = 0 \/ Len(employees) = 0
    /\ pc' = "returned"
    /\ outcome' = [call |-> "optimize", raised |-> "none", best_solution |-> <<>>,
                   logbook |-> <<>>, none |-> TRUE]
    /\ UNCHANGED <<tasks, employees, gaVars, optimization_history, schedVars>>

\* optimize up to the generation loop: population, hall of fame, logbook
OptimizeStart ==
    /\ pc = "ready"
    /\ Len(tasks) > 0 /\ Len(employees) > 0
    /\ pop' \in NewPopulations(POP_SIZE)
    /\ hof' = <<>>
    /\ logbook' = <<>>
    /\ offspring' = <<>>
    /\ gen' = 0
    /\ progress_callback' \in BOOLEAN
    /\ progress' = <<>>
    /\ pc' = IF 0 < GENERATIONS THEN "vary" ELSE "finish"
    /\ outcome' = NoOutcome
    /\ UNCHANGED <<tasks, employees, POP_SIZE, GENERATIONS, TOURNAMENT_SIZE,
                   optimization_history, schedVars>>

\* offspring = algorithms.varAnd(pop, ...)
VarAnd ==
    /\ pc = "vary"
    /\ offspring' \in VarAndResults(pop)
    /\ pc' = "evaluate"
    /\ UNCHANGED <<tasks, employees, POP_SIZE, GENERATIONS, TOURNAMENT_SIZE, gen, pop,
                   hof, logbook, progress_callback, progress, optimization_history,
                   outcome, schedVars>>

\* varAnd mates a pair of one-gene individuals: cxTwoPoint raises ValueError,
\* which leaves optimize
VarAndRaises ==
    /\ pc = "vary"
    /\ Len(pop) >= 2
    /\ CxRaises(Len(tasks))
    /\ pc' = "raised"
    /\ outcome' = [call |-> "optimize", raised |-> "ValueError"]
    /\ UNCHANGED <<tasks, employees, gaVars, optimization_history, schedVars>>

\* fits = map(evaluate, offspring) and the loop assigning them
Evaluate ==
    /\ pc = "evaluate"
    /\ LET r == EvaluateAll(offspring, Len(offspring))
       IN /\ optimization_history' = optimization_history \o r.logged
          /\ offspring' = r.offspring
          /\ pc' = IF r.raised = "none" THEN "select" ELSE "raised"
          /\ outcome' = IF r.raised = "none" THEN outcome
                        ELSE [call |-> "optimize", raised |-> r.raised]
    /\ UNCHANGED <<tasks, employees, POP_SIZE, GENERATIONS, TOURNAMENT_SIZE, gen, pop,
                   hof, logbook, progress_callback, progress, schedVars>>

\* progress_callback(gen + 1, self.GENERATIONS, record["max"], record["avg"])
ProgressCall(generation, record) ==
    [generation |-> generation + 1, total |-> GENERATIONS,
     best_fitness |-> record.max, avg_fitness |-> record.avg]

\* pop = select(offspring, k=len(pop)); hof.update(pop); logbook.record(...);
\* the progress callback if there is one; then the next turn of the loop over
\* range(GENERATIONS)
SelectAndRecord ==
    /\ pc = "select"
    /\ pop' \in SelTournament(offspring, Len(pop), TOURNAMENT_SIZE)
    /\ hof' = HofUpdate(hof, pop', Len(pop'))
    /\ logbook' = Append(logbook, Record(gen, Len(offspring), pop'))
    /\ progress' = IF progress_callback
                   THEN Append(progress, ProgressCall(gen, Record(gen, Len(offspring), pop')))
                   ELSE progress
    /\ gen' = gen + 1
    /\ pc' = IF gen + 1 < GENERATIONS THEN "vary" ELSE "finish"
    /\ UNCHANGED <<tasks, employees, POP_SIZE, GENERATIONS, TOURNAMENT_SIZE, offspring,
                   progress_callback, optimization_history, outcome, schedVars>>

\* self.best_solution = hof[0]; return self.best_solution, logbook
OptimizeReturn ==
    /\ pc = "finish"
    /\ Len(hof) > 0
    /\ pc' = "returned"
    /\ outcome' = [call |-> "optimize", raised |-> "none", best_solution |-> hof[1],
                   logbook |-> logbook, none |-> FALSE]
    /\ UNCHANGED <<tasks, employees, gaVars, optimization_history, schedVars>>

\* hof[0] on an empty hall of fame (no generation ran): IndexError
OptimizeReturnRaises ==
    /\ pc = "finish"
    /\ Len(hof) = 0
    /\ pc' = "raised"
    /\ outcome' = [call |-> "optimize", raised |-> "IndexError"]
    /\ UNCHANGED <<tasks, employees, gaVars, optimization_history, schedVars>>

Next ==
    \/ SetupGaParameters
    \/ SetupGaParametersRaises
    \/ OptimizeEmpty
    \/ OptimizeStart
    \/ VarAnd
    \/ VarAndRaises
    \/ Evaluate
    \/ SelectAndRecord
    \/ OptimizeReturn
    \/ OptimizeReturnRaises

Spec == Init /\ [][Next]_vars

-----------------------------------------------------------------------------
(* get_assignment_analysis and _calculate_efficiency_score *)

RatMin(a, b) == IF RatLess(b, a) THEN b ELSE a

\* round(x): the nearest integer, ties to the even one
RoundHalfEven(r) ==
    LET q == r.n \div r.d
        rem == r.n - q * r.d
    IN IF 2 * rem < r.d THEN q
       ELSE IF 2 * rem > r.d THEN q + 1
       ELSE IF q % 2 = 0 THEN q ELSE q + 1

\* mutant: every required skill is appended to missing_skills
SelectSkillsNoElse(task, emp, keep) ==
    SelectSeq(task.skills, LAMBDA sk : (sk \in DOMAIN emp.skills) \/ ~keep)

\* the sublist of the required skills the employee has (keep = TRUE) or
\* lacks (keep = FALSE), in list order
SelectSkills(task, emp, keep) ==
    SelectSeq(task.skills, LAMBDA sk : (sk \in DOMAIN emp.skills) = keep)

RECURSIVE SumCost(_, _)
SumCost(es, k) == IF k = 0 THEN 0 ELSE SumCost(es, k - 1) + es[k].cost_per_hour

\* weights of _calculate_efficiency_score, in percent
WEIGHT_SKILL_MATCH == 40

WEIGHT_COST_EFFICIENCY == 30

WEIGHT_EXPERIENCE == 20

EXPERIENCE_COST == 2000

\* _calculate_efficiency_score(task, emp) when it returns (the employee's
\* cost_per_hour is not 0, or no employee costs anything): round(score * 100, 2)
EfficiencyScore(task, emp, es) ==
    LET n == Len(task.skills)
        skill_match == IF n = 0 THEN RatInt(0)
                       ELSE Rat(SkillMatchScore10(task, emp, n), 10 * n)
        total == SumCost(es, Len(es))
        cost_term == IF total > 0
                     THEN RatMin(Rat(total, Len(es) * emp.cost_per_hour), Rat(3, 2))
                     ELSE RatInt(0)
        experience == RatMin(Rat(emp.cost_per_hour, EXPERIENCE_COST), RatInt(1))
        score100 == RatAdd(RatAdd(Rat(skill_match.n * WEIGHT_SKILL_MATCH, skill_match.d),
                                  Rat(cost_term.n * WEIGHT_COST_EFFICIENCY, cost_term.d)),
                           Rat(experience.n * WEIGHT_EXPERIENCE, experience.d))
    IN Rat(RoundHalfEven(Rat(score100.n * 100, score100.d)), 100)

\* the record get_assignment_analysis appends for one gene
AssignmentRecord(task, emp, es) ==
    LET matched == SelectSkills(task, emp, TRUE)
        missing == SelectSkills(task, emp, FALSE)
    IN [task_id |-> task.id,
        task_hours |-> task.hours,
        task_priority |-> task.priority,
        employee_id |-> emp.id,
        employee_cost |-> emp.cost_per_hour,
        matched_skills |-> matched,
        missing_skills |-> missing,
        skill_match_percent |-> IF Len(task.skills) > 0
                                THEN Rat(Len(matched) * 100, Len(task.skills))
                                ELSE RatInt(100),
        estimated_cost |-> task.hours * emp.cost_per_hour,
        efficiency_score |-> EfficiencyScore(task, emp, es)]

\* mutant: the first employee is taken whatever the gene
GeneEmployeeFirst(solution, es, k) == es[1]

\* emp = self.employees[emp_idx] for the gene of task k
GeneEmployee(solution, es, k) == es[solution[k] + 1]

RECURSIVE AssignmentAnalysis(_, _, _, _)
\* get_assignment_analysis(solution) after the first k genes: a gene beyond
\* the task list or naming no employee is skipped
AssignmentAnalysis(solution, ts, es, k) ==
    IF k = 0 THEN <<>>
    ELSE LET before == AssignmentAnalysis(solution, ts, es, k - 1)
         IN IF k - 1 >= Len(ts) \/ solution[k] >= Len(es) THEN before
            ELSE Append(before, AssignmentRecord(ts[k], GeneEmployee(solution, es, k), es))

-----------------------------------------------------------------------------
(* build_schedule and _calculate_end_date *)

\* last day number the end-date walk is followed to
MaxDate == 60

\* date.weekday(): 0 is Monday
Weekday(date) == date % 7

\* mutant: holidays are not looked at
IsWorkDayAnyDate(date, cal) == Weekday(date) \in cal.work_days_per_week

\* the test of _calculate_end_date for a day that counts as worked
IsWorkDay(date, cal) ==
    Weekday(date) \in cal.work_days_per_week /\ date \notin cal.holidays

FindById(list, id) == {i \in DOMAIN list : list[i].id = id}

\* next(x for x in list if x["id"] == id): the first match
FirstById(list, id) == list[CHOOSE i \in FindById(list, id) : \A j \in FindById(list, id) : i <= j]

\* the task and the employee of the assignment build_schedule works on
CurrentTask == FirstById(tasks, assignment[ai].task_id)

CurrentEmp == FirstById(employees, assignment[ai].employee_id)

\* while work_days_completed < days_needed, with days_needed = hours / daily_hours
WalkContinues ==
    work_days_completed * CurrentEmp.daily_hours < CurrentTask.hours

\* the lists a caller passes to build_schedule: the analysis as it is, or the
\* analysis with its first record naming a task that is no longer in the task
\* list, or an employee that is not in the employee list
AssignmentArgs ==
    {analysis}
    \cup (IF Len(analysis) = 0 THEN {}
          ELSE { [analysis EXCEPT ![1].task_id = 100 + Len(tasks) + 1] }
               \cup { [analysis EXCEPT ![1].employee_id = EmployeePool[e].id] :
                          e \in {x \in DOMAIN EmployeePool :
                                     FindById(employees, EmployeePool[x].id) = {}} })

\* avg_cost / emp.get("cost_per_hour", avg_cost) divides by zero for some
\* gene: the key is there, so the default is not taken, and its value is 0
EfficiencyRaises(solution, ts, es) ==
    /\ SumCost(es, Len(es)) > 0
    /\ \E k \in DOMAIN solution :
           /\ k <= Len(ts) /\ solution[k] < Len(es)
           /\ es[solution[k] + 1].cost_per_hour = 0

\* get_assignment_analysis(solution) for a list of genes
GetAssignmentAnalysis ==
    /\ pc = "resolve"
    /\ spc = "idle"
    /\ \E solution \in Individuals(Len(tasks), IF Len(employees) = 0 THEN 1 ELSE Len(employees)) :
          IF EfficiencyRaises(solution, tasks, employees)
          THEN /\ analysis' = analysis
               /\ outcome' = [call |-> "get_assignment_analysis", solution |-> solution,
                              raised |-> "ZeroDivisionError"]
               /\ pc' = "resolve_raised"
          ELSE /\ analysis' = AssignmentAnalysis(solution, tasks, employees, Len(solution))
               /\ outcome' = [call |-> "get_assignment_analysis", solution |-> solution,
                              raised |-> "none"]
               /\ pc' = "resolved"
    /\ UNCHANGED <<tasks, employees, gaVars, optimization_history, calendar_config, assignment, spc,
                   schedule, emp_schedules, ai, current_date, work_days_completed, metrics>>

\* mutant: the second call logs its result in optimization_history
GetAssignmentAnalysisAgainLogging ==
    /\ pc = "resolved"
    /\ spc = "idle"
    /\ analysis' = AssignmentAnalysis(outcome.solution, tasks, employees, Len(outcome.solution))
    /\ optimization_history' = Append(optimization_history, [analysis |-> analysis'])
    /\ pc' = "resolved_again"
    /\ UNCHANGED <<tasks, employees, gaVars, outcome, calendar_config, assignment,
                   spc, schedule, emp_schedules, ai, current_date, work_days_completed, metrics>>

\* get_assignment_analysis(solution) called a second time on the same list
\* of genes
GetAssignmentAnalysisAgain ==
    /\ pc = "resolved"
    /\ spc = "idle"
    /\ analysis' = AssignmentAnalysis(outcome.solution, tasks, employees, Len(outcome.solution))
    /\ pc' = "resolved_again"
    /\ UNCHANGED <<tasks, employees, gaVars, optimization_history, outcome, calendar_config,
                   assignment, spc, schedule, emp_schedules, ai, current_date,
                   work_days_completed, metrics>>

\* build_schedule(assignment) with nothing to schedule: return []
BuildScheduleEmpty ==
    /\ pc \in {"resolved", "resolved_again"}
    /\ spc = "idle"
    /\ \E arg \in AssignmentArgs :
          /\ Len(arg) = 0 \/ Len(tasks) = 0 \/ Len(employees) = 0
          /\ assignment' = arg
    /\ spc' = "returned_empty"
    /\ UNCHANGED <<tasks, employees, pc, gaVars, optimization_history, outcome,
                   calendar_config, analysis, schedule, emp_schedules, ai, current_date,
                   work_days_completed, metrics>>

\* build_schedule up to its loop: the schedule is reset and every employee's
\* cursor is set to the start date
BuildScheduleStart ==
    /\ pc \in {"resolved", "resolved_again"}
    /\ spc = "idle"
    /\ \E arg \in AssignmentArgs :
          /\ Len(arg) > 0 /\ Len(tasks) > 0 /\ Len(employees) > 0
          /\ assignment' = arg
    /\ schedule' = <<>>
    /\ emp_schedules' = [id \in {employees[i].id : i \in DOMAIN employees} |->
                            calendar_config.start_date]
    /\ ai' = 1
    /\ spc' = "assign"
    /\ UNCHANGED <<tasks, employees, pc, gaVars, optimization_history, outcome,
                   calendar_config, analysis, current_date, work_days_completed, metrics>>

\* an assignment whose task or employee is not found: continue
SkipAssignment ==
    /\ spc = "assign"
    /\ ai <= Len(assignment)
    /\ \/ FindById(tasks, assignment[ai].task_id) = {}
       \/ FindById(employees, assignment[ai].employee_id) = {}
    /\ ai' = ai + 1
    /\ UNCHANGED <<tasks, employees, pc, gaVars, optimization_history, outcome,
                   calendar_config, analysis, assignment, spc, schedule, emp_schedules, current_date,
                   work_days_completed, metrics>>

\* the next assignment: _calculate_end_date starts at the employee's cursor
BeginWalk ==
    /\ spc = "assign"
    /\ ai <= Len(assignment)
    /\ FindById(tasks, assignment[ai].task_id) # {}
    /\ FindById(employees, assignment[ai].employee_id) # {}
    /\ current_date' = emp_schedules[assignment[ai].employee_id]
    /\ work_days_completed' = 0
    /\ spc' = "walk"
    /\ UNCHANGED <<tasks, employees, pc, gaVars, optimization_history, outcome,
                   calendar_config, analysis, assignment, schedule, emp_schedules, ai, metrics>>

\* mutant: the date is advanced only onto a working day
WalkStepOntoWorkDays ==
    /\ spc = "walk"
    /\ WalkContinues
    /\ current_date < MaxDate
    /\ current_date' =
          IF IsWorkDay(current_date + 1, calendar_config)
          THEN current_date + 1 ELSE current_date
    /\ work_days_completed' =
          IF IsWorkDay(current_date + 1, calendar_config)
          THEN work_days_completed + 1 ELSE work_days_completed
    /\ UNCHANGED <<tasks, employees, pc, gaVars, optimization_history, outcome,
                   calendar_config, analysis, assignment, spc, schedule, emp_schedules, ai,
                   metrics>>

\* one turn of the while loop of _calculate_end_date
WalkStep ==
    /\ spc = "walk"
    /\ WalkContinues
    /\ current_date < MaxDate
    /\ current_date' = current_date + 1
    /\ work_days_completed' =
          IF IsWorkDay(current_date + 1, calendar_config)
          THEN work_days_completed + 1 ELSE work_days_completed
    /\ UNCHANGED <<tasks, employees, pc, gaVars, optimization_history, outcome,
                   calendar_config, analysis, assignment, spc, schedule, emp_schedules, ai,
                   metrics>>

\* mutant: the assignment's keys are not found and the defaults 0 are taken
ScheduleItemDefaults(task_assignment, task, emp, start, end) ==
    [task_id |-> task_assignment.task_id,
     task_priority |-> task.priority,
     employee_id |-> task_assignment.employee_id,
     start_date |-> start,
     end_date |-> end,
     duration_days |-> end - start,
     hours |-> task.hours,
     cost |-> task.hours * emp.cost_per_hour,
     skills_match |-> RatInt(0),
     efficiency |-> RatInt(0)]

\* the schedule item built from the assignment and the end date found
ScheduleItem(task_assignment, task, emp, start, end) ==
    [task_id |-> task_assignment.task_id,
     task_priority |-> task.priority,
     employee_id |-> task_assignment.employee_id,
     start_date |-> start,
     end_date |-> end,
     duration_days |-> end - start,
     hours |-> task.hours,
     cost |-> task.hours * emp.cost_per_hour,
     skills_match |-> task_assignment.skill_match_percent,
     efficiency |-> task_assignment.efficiency_score]

\* mutant: the employee's cursor is left on the end date
EmitItemNoGap ==
    /\ spc = "walk"
    /\ ~WalkContinues
    /\ schedule' = Append(schedule,
                          ScheduleItem(assignment[ai], CurrentTask, CurrentEmp,
                                       emp_schedules[assignment[ai].employee_id],
                                       current_date))
    /\ emp_schedules' = [emp_schedules EXCEPT ![assignment[ai].employee_id] = current_date]
    /\ ai' = ai + 1
    /\ spc' = "assign"
    /\ UNCHANGED <<tasks, employees, pc, gaVars, optimization_history, outcome,
                   calendar_config, analysis, assignment, current_date, work_days_completed,
                   metrics>>

\* mutant: one cursor for all employees
EmitItemSharedCursor ==
    /\ spc = "walk"
    /\ ~WalkContinues
    /\ schedule' = Append(schedule,
                          ScheduleItem(assignment[ai], CurrentTask, CurrentEmp,
                                       emp_schedules[assignment[ai].employee_id],
                                       current_date))
    /\ emp_schedules' = [id \in DOMAIN emp_schedules |-> current_date + 1]
    /\ ai' = ai + 1
    /\ spc' = "assign"
    /\ UNCHANGED <<tasks, employees, pc, gaVars, optimization_history, outcome,
                   calendar_config, analysis, assignment, current_date, work_days_completed,
                   metrics>>

\* _calculate_end_date returns: the item is appended and the employee's
\* cursor moves to the day after the end date
EmitItem ==
    /\ spc = "walk"
    /\ ~WalkContinues
    /\ schedule' = Append(schedule,
                          ScheduleItem(assignment[ai], CurrentTask, CurrentEmp,
                                       emp_schedules[assignment[ai].employee_id],
                                       current_date))
    /\ emp_schedules' = [emp_schedules EXCEPT ![assignment[ai].employee_id] = current_date + 1]
    /\ ai' = ai + 1
    /\ spc' = "assign"
    /\ UNCHANGED <<tasks, employees, pc, gaVars, optimization_history, outcome,
                   calendar_config, analysis, assignment, current_date, work_days_completed,
                   metrics>>

\* return self.schedule
BuildScheduleReturn ==
    /\ spc = "assign"
    /\ ai > Len(assignment)
    /\ spc' = "built"
    /\ UNCHANGED <<tasks, employees, pc, gaVars, optimization_history, outcome,
                   calendar_config, analysis, assignment, schedule, emp_schedules, ai, current_date,
                   work_days_completed, metrics>>

\* build_schedule([]) on a builder that has built a schedule: return [],
\* before self.schedule is reset
BuildScheduleAgainEmpty ==
    /\ spc = "built"
    /\ assignment' = <<>>
    /\ spc' = "returned_empty"
    /\ metrics' = NoMetrics
    /\ UNCHANGED <<tasks, employees, pc, gaVars, optimization_history, outcome,
                   calendar_config, analysis, schedule, emp_schedules, ai, current_date,
                   work_days_completed>>

-----------------------------------------------------------------------------
(* calculate_project_metrics *)

RECURSIVE SumField(_, _, _)
\* df[field].sum() over the first k items, for a field of integers
SumField(items, field, k) ==
    IF k = 0 THEN 0 ELSE SumField(items, field, k - 1) + items[k][field]

RECURSIVE SumRatField(_, _, _)
\* df[field].sum() over the first k items, for a field of fractions
SumRatField(items, field, k) ==
    IF k = 0 THEN RatInt(0) ELSE RatAdd(SumRatField(items, field, k - 1), items[k][field])

\* df[field].mean()
MeanField(items, field) == RatDivInt(SumRatField(items, field, Len(items)), Len(items))

\* mutant: the probability is not capped at 1.0
OnTimeCompletionNoCap(items) ==
    LET avg_efficiency == MeanField(items, "efficiency")
        avg_skill_match == MeanField(items, "skills_match")
        weighted == RatAdd(Rat(avg_efficiency.n * 6, avg_efficiency.d * 10),
                           Rat(avg_skill_match.n * 4, avg_skill_match.d * 10))
    IN RatDivInt(weighted, 100)

\* _calculate_on_time_completion: min((avg_efficiency * 0.6 + avg_skill_match * 0.4) / 100, 1.0)
OnTimeCompletion(items) ==
    LET avg_efficiency == MeanField(items, "efficiency")
        avg_skill_match == MeanField(items, "skills_match")
        weighted == RatAdd(Rat(avg_efficiency.n * 6, avg_efficiency.d * 10),
                           Rat(avg_skill_match.n * 4, avg_skill_match.d * 10))
    IN RatMin(RatDivInt(weighted, 100), RatInt(1))

\* calculate_project_metrics() over self.schedule: {} for an empty schedule
ProjectMetrics(items) ==
    IF Len(items) = 0 THEN [called |-> TRUE, empty |-> TRUE]
    ELSE [called |-> TRUE, empty |-> FALSE,
          total_duration |->
              (CHOOSE e \in {items[i].end_date : i \in DOMAIN items} :
                   \A i \in DOMAIN items : items[i].end_date <= e)
              - (CHOOSE b \in {items[i].start_date : i \in DOMAIN items} :
                     \A i \in DOMAIN items : b <= items[i].start_date),
          total_hours |-> SumField(items, "hours", Len(items)),
          total_cost |-> SumField(items, "cost", Len(items)),
          avg_efficiency |-> MeanField(items, "efficiency"),
          avg_skill_match |-> MeanField(items, "skills_match"),
          task_count |-> Len(items),
          high_priority_tasks |->
              Cardinality({i \in DOMAIN items : items[i].task_priority = "high"}),
          on_time_completion |-> OnTimeCompletion(items)]

\* calculate_project_metrics() after build_schedule has returned
CalculateProjectMetrics ==
    /\ spc \in {"built", "returned_empty"}
    /\ metrics' = ProjectMetrics(schedule)
    /\ UNCHANGED <<tasks, employees, pc, gaVars, optimization_history, outcome,
                   calendar_config, analysis, assignment, spc, schedule, emp_schedules, ai,
                   current_date, work_days_completed>>

-----------------------------------------------------------------------------
(* Resolving an individual and building its schedule *)

\* longest task list drawn for resolving and scheduling
MaxSchedTasks == 2

SchedTaskPool ==
    { [hours |-> 4,  priority |-> "high",   skills |-> <<>>],
      [hours |-> 8,  priority |-> "medium", skills |-> <<"backend">>],
      [hours |-> 20, priority |-> "low",    skills |-> <<"backend", "devops">>] }

\* one week of work for an employee with eight hours a day
WeekTask == [hours |-> 40, priority |-> "medium", skills |-> <<"backend">>]

SchedTaskLists ==
    UNION { { WithIds(t) : t \in [1..k -> SchedTaskPool] } : k \in 0..MaxSchedTasks }
    \cup { WithIds(<<WeekTask>>) }

\* a fully skilled employee next to one who costs twice as much
SeniorPair ==
    << [id |-> 205, daily_hours |-> 8, cost_per_hour |-> 2000,
        skills |-> [s \in {"backend", "devops"} |-> 10]],
       [id |-> 206, daily_hours |-> 8, cost_per_hour |-> 4000, skills |-> NoSkills] >>

\* an employee who costs nothing
Volunteer == [id |-> 208, daily_hours |-> 8, cost_per_hour |-> 0, skills |-> NoSkills]

SchedEmployeeLists ==
    { <<>>, SubSeq(EmployeePool, 1, 1), SubSeq(EmployeePool, 2, 3), SubSeq(EmployeePool, 3, 4),
      SeniorPair, <<EmployeePool[1], Volunteer>> }

\* calendars: Monday to Friday from a Monday, without holidays; Monday to
\* Friday from a Friday, with a Tuesday and the Monday after it as holidays;
\* Monday and Wednesday only, from a Saturday without holidays and from a
\* Monday with the two holidays; and one calendar with no working weekday
Calendars ==
    { [start_date |-> 0, work_days_per_week |-> {0, 1, 2, 3, 4}, holidays |-> {}],
      [start_date |-> 4, work_days_per_week |-> {0, 1, 2, 3, 4}, holidays |-> {1, 7}],
      [start_date |-> 5, work_days_per_week |-> {0, 2}, holidays |-> {}],
      [start_date |-> 0, work_days_per_week |-> {0, 2}, holidays |-> {1, 7}],
      [start_date |-> 0, work_days_per_week |-> {}, holidays |-> {}] }

InitResolve ==
    /\ tasks \in SchedTaskLists
    /\ employees \in SchedEmployeeLists
    /\ calendar_config \in Calendars
    /\ pc = "resolve"
    /\ OptimizerConstructed
    /\ BuilderConstructed

NextResolve ==
    \/ GetAssignmentAnalysis
    \/ GetAssignmentAnalysisAgain
    \/ BuildScheduleEmpty
    \/ BuildScheduleStart
    \/ SkipAssignment
    \/ BeginWalk
    \/ WalkStep
    \/ EmitItem
    \/ BuildScheduleReturn
    \/ BuildScheduleAgainEmpty
    \/ CalculateProjectMetrics

SpecResolve == InitResolve /\ [][NextResolve]_vars

\* the statements of a build_schedule call that has begun: the call keeps
\* running until it returns
BuildScheduleRuns ==
    \/ SkipAssignment
    \/ BeginWalk
    \/ WalkStep
    \/ EmitItem
    \/ BuildScheduleReturn

\* no employee, or one with eight and one with six hours a day
BuildEmployeeLists == { <<>>, SubSeq(EmployeePool, 2, 3) }

InitBuild ==
    /\ tasks \in SchedTaskLists
    /\ employees \in BuildEmployeeLists
    /\ calendar_config \in Calendars
    /\ pc = "resolve"
    /\ OptimizerConstructed
    /\ BuilderConstructed

SpecBuild == InitBuild /\ [][NextResolve]_vars /\ WF_vars(BuildScheduleRuns)

-----------------------------------------------------------------------------
(* Properties of _fitness, checked under SpecFit *)

InRange(genes) ==
    /\ Len(genes) = Len(tasks)
    /\ \A i \in DOMAIN genes : genes[i] \in 0..(Len(employees) - 1)

\* C1: the fitness _fitness returns for in-range genes over non-empty task
\* and employee lists is strictly greater than 0 and at most 10000.
C1_FitnessInRange ==
    (outcome.call = "_fitness" /\ outcome.raised = "none"
        /\ Len(tasks) > 0 /\ Len(employees) > 0 /\ InRange(outcome.individual))
    => /\ RatLess(RatInt(0), outcome.value)
       /\ RatLeq(outcome.value, RatInt(BASE_FITNESS))

\* C2: _fitness never raises for in-range genes: the denominator
\* 1 + penalty + total_cost/1000 + skill_mismatches*100 is never zero.
C2_FitnessNeverRaises ==
    (outcome.call = "_fitness" /\ InRange(outcome.individual)) => outcome.raised = "none"

\* b's accumulated totals equal a's except for one term, strictly larger in b
LargerInOneTerm(a, b) ==
    \/ a.penalty < b.penalty /\ a.cost = b.cost /\ a.skill_mismatches = b.skill_mismatches
    \/ a.penalty = b.penalty /\ a.cost < b.cost /\ a.skill_mismatches = b.skill_mismatches
    \/ a.penalty = b.penalty /\ a.cost = b.cost /\ a.skill_mismatches < b.skill_mismatches

\* C3: fitness is strictly monotone: of two evaluations whose accumulated
\* (penalty, total_cost, skill_mismatches) differ in one term only, the one
\* with the larger term has the strictly lower fitness.
C3_FitnessMonotone ==
    \A i, j \in DOMAIN optimization_history :
        LargerInOneTerm(optimization_history[i], optimization_history[j])
        => RatLess(optimization_history[j].fitness, optimization_history[i].fitness)

-----------------------------------------------------------------------------
(* Properties of optimize, checked under Spec *)

EmptyInputs == Len(tasks) = 0 \/ Len(employees) = 0

OptimizeEnded == pc \in {"returned", "raised"} /\ outcome.call = "optimize"

C5_ReturnsBestEvaluated ==
    (pc = "returned" /\ outcome.call = "optimize" /\ ~outcome.none)
    => \A i \in DOMAIN optimization_history :
           RatLeq(optimization_history[i].fitness, outcome.best_solution.fitness)

\* C6: the Hall-of-Fame fitness never decreases: the stored elite changes
\* only to an individual of strictly greater fitness, and no other step
\* (crossover, mutation, evaluation) changes its genes or fitness.
C6_HofMonotone ==
    [][(Len(hof) > 0 /\ Len(hof') > 0)
          => (hof' = hof \/ RatLess(hof[1].fitness, hof'[1].fitness))]_vars

\* the elite was replaced by a fitter individual in the second generation
C6_Witness ==
    /\ gen = 2 /\ Len(hof) = 1 /\ Len(logbook) = 2
    /\ RatLess(logbook[1].max, hof[1].fitness)

\* C7: in every state of the GA every individual of the population (and of
\* the offspring) has one gene per task, each in [0, employee_count).
C7_GenesInRange ==
    /\ \A i \in DOMAIN pop : InRange(pop[i].genes)
    /\ \A i \in DOMAIN offspring : InRange(offspring[i].genes)

\* an offspring that differs from its parent, after a selection took place
C7_Witness ==
    /\ gen = 1 /\ pc = "evaluate"
    /\ \E i \in DOMAIN offspring : offspring[i].genes # pop[i].genes

\* C8: for non-empty inputs and G >= 1 generations, optimize ends after
\* exactly G generations, returning a log of G records with gen = 0..G-1,
\* nevals = population size and min <= avg <= max, the population keeping
\* its size.
C8_RunsAllGenerations ==
    (OptimizeEnded /\ ~EmptyInputs /\ GENERATIONS >= 1)
    => /\ outcome.raised = "none"
       /\ gen = GENERATIONS
       /\ Len(pop) = POP_SIZE
       /\ Len(outcome.logbook) = GENERATIONS
       /\ \A i \in DOMAIN outcome.logbook :
              /\ outcome.logbook[i].gen = i - 1
              /\ outcome.logbook[i].nevals = POP_SIZE
              /\ RatLeq(outcome.logbook[i].min, outcome.logbook[i].avg)
              /\ RatLeq(outcome.logbook[i].avg, outcome.logbook[i].max)

-----------------------------------------------------------------------------
(* Properties of get_assignment_analysis and build_schedule, checked under  *)
(* SpecResolve                                                              *)

Range(seq) == {seq[i] : i \in DOMAIN seq}

\* the solution resolved has every gene in range
SolutionInRange ==
    /\ outcome.call = "get_assignment_analysis"
    /\ \A i \in DOMAIN outcome.solution : outcome.solution[i] < Len(employees)

\* build_schedule has returned the schedule of the analysis itself
ScheduledAnalysis == spc \in {"built", "returned_empty"} /\ assignment = analysis

\* C9: resolving an in-range individual and scheduling the result gives
\* exactly one Assignment and one ScheduleItem per task, in task order, each
\* with the id of the employee the task's gene names.
C9_OneItemPerTask ==
    (SolutionInRange /\ ScheduledAnalysis)
    => /\ Len(analysis) = Len(tasks)
       /\ Len(schedule) = Len(tasks)
       /\ \A i \in DOMAIN tasks :
              /\ analysis[i].task_id = tasks[i].id
              /\ analysis[i].employee_id = employees[outcome.solution[i] + 1].id
              /\ schedule[i].task_id = tasks[i].id
              /\ schedule[i].employee_id = employees[outcome.solution[i] + 1].id

C9_Witness ==
    /\ SolutionInRange /\ spc = "built" /\ assignment = analysis
    /\ Len(schedule) = 2
    /\ schedule[1].employee_id # schedule[2].employee_id
    /\ schedule[2].employee_id = employees[1].id

\* C10: every Assignment has skill_match_percent in [0, 100], equal to
\* 100 * |matched| / |required| and to 100 when nothing is required; its
\* matched and missing skills are disjoint and are together the required ones.
C10_SkillMatchPercent ==
    \A i \in DOMAIN analysis :
        LET a == analysis[i]
            required == FirstById(tasks, a.task_id).skills
        IN /\ RatLeq(RatInt(0), a.skill_match_percent)
           /\ RatLeq(a.skill_match_percent, RatInt(100))
           /\ a.skill_match_percent.n * Len(required)
                 = 100 * Len(a.matched_skills) * a.skill_match_percent.d
                 \/ Len(required) = 0
           /\ Len(required) = 0 => a.skill_match_percent = RatInt(100)
           /\ Range(a.matched_skills) \cap Range(a.missing_skills) = {}
           /\ Range(a.matched_skills) \cup Range(a.missing_skills) = Range(required)
           /\ Len(a.matched_skills) + Len(a.missing_skills) = Len(required)

\* an assignment with one required skill matched and one missing, and one
\* for a task that requires nothing
C10_Witness ==
    /\ Len(analysis) = 2
    /\ Len(analysis[1].matched_skills) = 1 /\ Len(analysis[1].missing_skills) = 1
    /\ analysis[1].skill_match_percent = RatInt(50)
    /\ Len(FirstById(tasks, analysis[2].task_id).skills) = 0

C12_EfficiencyInRange ==
    \A i \in DOMAIN analysis :
        /\ RatLeq(RatInt(0), analysis[i].efficiency_score)
        /\ RatLeq(analysis[i].efficiency_score, RatInt(100))

\* items i < j of the schedule belong to one employee, with no item of that
\* employee between them
ConsecutiveForEmployee(i, j) ==
    /\ i < j
    /\ schedule[i].employee_id = schedule[j].employee_id
    /\ \A k \in (i + 1)..(j - 1) : schedule[k].employee_id # schedule[i].employee_id

\* C13: build_schedule is order-preserving per employee: of two consecutive
\* tasks t1, t2 of one employee, t2 starts on the calendar day after t1's
\* end date, so start_date(t2) > end_date(t1) and the employee's intervals
\* do not overlap.
C13_OrderPreserving ==
    \A i, j \in DOMAIN schedule :
        ConsecutiveForEmployee(i, j)
        => /\ schedule[j].start_date = schedule[i].end_date + 1
           /\ schedule[j].start_date > schedule[i].end_date
           /\ schedule[i].start_date <= schedule[i].end_date
           /\ schedule[j].start_date <= schedule[j].end_date

\* two tasks of one employee were scheduled, the first ending after a weekend
C13_Witness ==
    /\ spc = "built" /\ Len(schedule) = 2
    /\ schedule[1].employee_id = schedule[2].employee_id
    /\ schedule[1].end_date > schedule[1].start_date + 2

\* the dates after the item's start date, up to its end date, that fall on a
\* working weekday of the calendar and are no holiday
BusinessDaysOf(item) ==
    { d \in (item.start_date + 1)..item.end_date :
          /\ d % 7 \in calendar_config.work_days_per_week
          /\ d \notin calendar_config.holidays }

\* C14: the business-day walk respects the calendar: for every ScheduleItem
\* with hours > 0 the days counted are exactly ceil(hours / daily_hours)
\* dates, each on a working weekday and no holiday, and end_date is the last
\* of them (no earlier date reaches the threshold).
C14_WalkRespectsCalendar ==
    \A i \in DOMAIN schedule :
        LET item == schedule[i]
            daily == FirstById(employees, item.employee_id).daily_hours
            counted == Cardinality(BusinessDaysOf(item))
        IN item.hours > 0
           => /\ counted * daily >= item.hours
              /\ (counted - 1) * daily < item.hours
              /\ item.end_date \in BusinessDaysOf(item)

\* a walk that went over a weekend and a holiday and took a part of a day as
\* a whole one
C14_Witness ==
    /\ Len(schedule) > 0
    /\ schedule[1].hours = 20
    /\ FirstById(employees, schedule[1].employee_id).daily_hours = 6
    /\ \E h \in calendar_config.holidays :
           h > schedule[1].start_date /\ h < schedule[1].end_date /\ h % 7 = 0
    /\ schedule[1].end_date - schedule[1].start_date > Cardinality(BusinessDaysOf(schedule[1])) + 2

\* one 40-hour task, one employee with daily_hours = 8, Monday to Friday,
\* starting on a Monday (day 0 is Monday 2024-06-03), no holidays
WeekScenario ==
    /\ Len(tasks) = 1 /\ tasks[1].hours = 40
    /\ Len(employees) = 1 /\ employees[1].daily_hours = 8
    /\ calendar_config = [start_date |-> 0, work_days_per_week |-> {0, 1, 2, 3, 4},
                          holidays |-> {}]

\* C15: in the week scenario build_schedule yields start_date 2024-06-03
\* (day 0), a duration of 5 business days and end_date 2024-06-07 (day 4) or
\* the next business day 2024-06-10 (day 7).
C15_WeekScenario ==
    (WeekScenario /\ spc = "built" /\ assignment = analysis)
    => /\ Len(schedule) = 1
       /\ schedule[1].start_date = 0
       /\ schedule[1].duration_days = 5
       /\ schedule[1].end_date \in {4, 7}

\* C16: with a calendar that has no working weekday at all, build_schedule
\* rejects the call up front: it never starts on the assignments and never
\* enters the day-advance loop, which could not end.
C16_NoWorkDaysRejected ==
    calendar_config.work_days_per_week = {} => spc \notin {"assign", "walk", "built"}

\* C17: after build_schedule([]) on a builder in any state, also one that
\* has built a non-empty schedule, the builder's schedule is empty and
\* calculate_project_metrics returns the empty metrics object.
C17_EmptyAssignmentEmptySchedule ==
    (spc = "returned_empty" /\ Len(assignment) = 0)
    => /\ schedule = <<>>
       /\ metrics.called => metrics.empty

\* C18: an Assignment naming a task id or an employee id that is not in the
\* builder's lists makes build_schedule report a data-reference error: it
\* never returns a schedule after passing over such an assignment.
C18_ForeignIdReported ==
    spc = "built"
    => \A i \in DOMAIN assignment :
           /\ FindById(tasks, assignment[i].task_id) # {}
           /\ FindById(employees, assignment[i].employee_id) # {}

\* C19: in every generation the progress observer's third argument is the
\* best fitness seen so far in the run (the Hall-of-Fame fitness), so the
\* best-fitness values reported over generations 1..G never decrease.
C19_ProgressReportsBest ==
    /\ \A i, j \in DOMAIN progress :
           i < j => RatLeq(progress[i].best_fitness, progress[j].best_fitness)
    /\ (Len(progress) > 0 /\ Len(progress) = gen /\ Len(hof) > 0)
       => progress[Len(progress)].best_fitness = hof[1].fitness

\* C20: a configuration with tournament_size >= population_size is rejected
\* with an error before any generation runs: whenever setup_ga_parameters
\* has returned without raising, tournament_size < population_size.
C20_TournamentSizeRejected ==
    (pc \notin {"constructed", "setup_failed"} /\ Len(employees) > 0)
    => TOURNAMENT_SIZE < POP_SIZE

-----------------------------------------------------------------------------
(* Further properties of _fitness, checked under SpecFit *)

RECURSIVE InRangeTotals(_, _)
\* the totals of the in-range genes among the first k, each gene adding its
\* task's penalties, cost and missing skills
InRangeTotals(individual, k) ==
    IF k = 0 THEN [penalty |-> 0, cost |-> 0, skill_mismatches |-> 0]
    ELSE LET before == InRangeTotals(individual, k - 1)
         IN IF individual[k] \notin 0..(Len(employees) - 1) THEN before
            ELSE LET emp == employees[individual[k] + 1]
                 IN [penalty |-> before.penalty + GenePenalty(tasks[k], emp),
                     cost |-> before.cost + tasks[k].hours * emp.cost_per_hour,
                     skill_mismatches |-> before.skill_mismatches
                                          + MissingCount(tasks[k], emp)]

\* C21: a gene at or beyond employee_count is skipped: no error is raised
\* and the fitness is the one of the in-range genes alone, the skipped task
\* adding nothing to penalty, cost or skill_mismatches.
C21_OutOfRangeSkipped ==
    (outcome.call = "_fitness" /\ Len(tasks) > 0 /\ Len(employees) > 0
        /\ ~InRange(outcome.individual))
    => /\ outcome.raised = "none"
       /\ LET totals == InRangeTotals(outcome.individual, Len(outcome.individual))
              denominator == COST_SCALE * (1 + totals.penalty
                                             + totals.skill_mismatches * MISMATCH_WEIGHT)
                             + totals.cost
          IN /\ denominator # 0
             /\ outcome.value = Rat(BASE_FITNESS * COST_SCALE, denominator)

\* what the gene of task k adds to the penalty when the flat penalty goes to
\* the genes whose matched levels, in tenths, sum to less than five per
\* required skill
ExactGenePenalty(task, emp) ==
    MISSING_SKILL_PENALTY * Len(SelectSkills(task, emp, FALSE))
    + (IF SkillMatchScore10(task, emp, Len(task.skills)) < 5 * Len(task.skills)
       THEN UNDERQUALIFIED_PENALTY ELSE 0)
    + (IF task.hours < SIMPLE_TASK_HOURS /\ emp.cost_per_hour > SENIOR_COST_SIMPLE
       THEN SENIOR_ON_SIMPLE_PENALTY ELSE 0)
    - (IF task.priority = "high" /\ emp.cost_per_hour > SENIOR_COST_HIGH
       THEN SENIOR_ON_HIGH_BONUS ELSE 0)

\* a call of _fitness on one in-range gene that returned
OneGeneEvaluated ==
    /\ outcome.call = "_fitness" /\ outcome.raised = "none"
    /\ Len(tasks) = 1 /\ Len(employees) > 0 /\ InRange(outcome.individual)

\* C22: for every gene the evaluator counts as many skill mismatches as the
\* resolver reports missing_skills for the pair, each missing skill adds
\* 500 to the penalty, and the flat 300 is added exactly when the summed
\* proficiency / 10 of the matched skills is below half the number of
\* required skills (never for a task that requires none).
C22_MismatchesAndPenalties ==
    OneGeneEvaluated
    => LET task == tasks[1]
           emp == employees[outcome.individual[1] + 1]
           logged == optimization_history[Len(optimization_history)]
       IN /\ logged.skill_mismatches = Len(SelectSkills(task, emp, FALSE))
          /\ logged.penalty = ExactGenePenalty(task, emp)

\* a gene of the solution resolved names an employee whose cost_per_hour is
\* 0, while the average cost over all employees is positive
ZeroCostAssigned ==
    /\ outcome.call = "get_assignment_analysis"
    /\ SumCost(employees, Len(employees)) > 0
    /\ \E k \in DOMAIN outcome.solution :
           /\ outcome.solution[k] < Len(employees)
           /\ employees[outcome.solution[k] + 1].cost_per_hour = 0

\* C23: for an employee whose cost_per_hour is 0 the efficiency computation
\* raises no division-by-zero error: the cost-efficiency component is
\* computed as if the cost were the average (a ratio of 1.0).
C23_ZeroCostNoError ==
    ZeroCostAssigned => outcome.raised = "none"

\* C24: every ScheduleItem has end_date >= start_date and a recorded
\* duration that is an integer >= 1, the number of business days the task
\* takes, not the calendar days from start_date to end_date.
C24_DurationInBusinessDays ==
    \A i \in DOMAIN schedule :
        /\ schedule[i].end_date >= schedule[i].start_date
        /\ schedule[i].duration_days >= 1
        /\ schedule[i].duration_days = Cardinality(BusinessDaysOf(schedule[i]))

\* the assignments build_schedule does not pass over, in list order
KeptAssignments ==
    SelectSeq(assignment,
              LAMBDA a : FindById(tasks, a.task_id) # {} /\ FindById(employees, a.employee_id) # {})

\* C25: every ScheduleItem's cost is the task's hours times the assigned
\* employee's cost_per_hour, which is the Assignment's estimated_cost, and
\* its skill-match and efficiency values are the skill_match_percent and
\* efficiency_score of the Assignment it was built from.
C25_ItemCarriesAssignment ==
    spc \in {"assign", "walk", "built"}
    => /\ Len(schedule) <= Len(KeptAssignments)
       /\ \A i \in DOMAIN schedule :
              LET item == schedule[i]
                  from == KeptAssignments[i]
              IN /\ item.task_id = from.task_id
                 /\ item.employee_id = from.employee_id
                 /\ item.cost = FirstById(tasks, item.task_id).hours
                                 * FirstById(employees, item.employee_id).cost_per_hour
                 /\ item.cost = from.estimated_cost
                 /\ item.skills_match = from.skill_match_percent
                 /\ item.efficiency = from.efficiency_score

\* two items of different cost were built, the first for an assignment with
\* half of its required skills matched
C25_Witness ==
    /\ spc = "built" /\ Len(schedule) = 2
    /\ schedule[1].skills_match = RatInt(50)
    /\ schedule[1].cost # schedule[2].cost
    /\ schedule[1].efficiency # schedule[2].efficiency

\* calculate_project_metrics has returned the metrics of a non-empty schedule
MetricsComputed == metrics.called /\ ~metrics.empty

\* C26: for every non-empty schedule, on_time_completion is
\* min(1.0, (avg_efficiency * 0.6 + avg_skill_match * 0.4) / 100) and lies in
\* [0, 1], and total_duration is the latest end_date minus the earliest
\* start_date, in days, and is >= 0.
C26_MetricsOnTimeAndDuration ==
    MetricsComputed
    => /\ LET sum == RatAdd(Rat(metrics.avg_efficiency.n * 6, metrics.avg_efficiency.d * 10),
                            Rat(metrics.avg_skill_match.n * 4, metrics.avg_skill_match.d * 10))
          IN metrics.on_time_completion =
                 IF RatLess(RatInt(100), sum) THEN RatInt(1) ELSE Rat(sum.n, sum.d * 100)
       /\ RatLeq(RatInt(0), metrics.on_time_completion)
       /\ RatLeq(metrics.on_time_completion, RatInt(1))
       /\ \E i, j \in DOMAIN schedule :
              /\ \A k \in DOMAIN schedule :
                     /\ schedule[k].end_date <= schedule[i].end_date
                     /\ schedule[j].start_date <= schedule[k].start_date
              /\ metrics.total_duration = schedule[i].end_date - schedule[j].start_date
       /\ metrics.total_duration >= 0

\* metrics of a schedule of two items whose weighted average is above 100,
\* so that the probability is capped
C26_Witness ==
    /\ MetricsComputed /\ metrics.task_count = 2
    /\ RatLess(RatInt(100), metrics.avg_efficiency)
    /\ metrics.avg_skill_match = RatInt(100)
    /\ metrics.on_time_completion = RatInt(1)
    /\ metrics.total_duration > 0

RECURSIVE EndOfWalk(_, _, _, _)
\* the date on which a walk that stands on date, with done days counted, has
\* counted the days that hours of work take at daily hours a day
EndOfWalk(date, done, hours, daily) ==
    IF done * daily >= hours THEN date
    ELSE EndOfWalk(date + 1,
                   IF (date + 1) % 7 \in calendar_config.work_days_per_week
                      /\ (date + 1) \notin calendar_config.holidays
                   THEN done + 1 ELSE done,
                   hours, daily)

RECURSIVE AloneDates(_, _)
\* the start and end dates of the first k of an employee's own assignments,
\* scheduled with no other employee present
AloneDates(own, k) ==
    IF k = 0 THEN <<>>
    ELSE LET before == AloneDates(own, k - 1)
             start == IF k = 1 THEN calendar_config.start_date
                      ELSE before[k - 1].end_date + 1
         IN Append(before,
                   [start_date |-> start,
                    end_date |-> EndOfWalk(start, 0, FirstById(tasks, own[k].task_id).hours,
                                           FirstById(employees, own[k].employee_id).daily_hours)])

\* C27: scheduling is independent across employees: each employee's first
\* task starts at calendar.start_date, and the items of employee E are the
\* ones E's own assignments give, in their order, whatever is assigned to
\* the other employees.
C27_IndependentAcrossEmployees ==
    spc = "built"
    => \A e \in DOMAIN employees :
           LET own == SelectSeq(KeptAssignments,
                                LAMBDA a : a.employee_id = employees[e].id)
               items == SelectSeq(schedule, LAMBDA it : it.employee_id = employees[e].id)
               alone == AloneDates(own, Len(own))
           IN /\ Len(items) = Len(own)
              /\ Len(items) > 0 => items[1].start_date = calendar_config.start_date
              /\ \A i \in DOMAIN items :
                     /\ items[i].task_id = own[i].task_id
                     /\ items[i].start_date = alone[i].start_date
                     /\ items[i].end_date = alone[i].end_date

\* two employees with one task each, the second employee's task standing
\* after the first one's in the list and ending earlier
C27_Witness ==
    /\ spc = "built" /\ Len(schedule) = 2
    /\ schedule[1].employee_id # schedule[2].employee_id
    /\ schedule[2].start_date = calendar_config.start_date
    /\ schedule[2].end_date < schedule[1].end_date

\* C28: evaluating an individual is a pure operation: a call of _fitness
\* leaves the tasks, the employees, the population, the Hall of Fame, the
\* log and the history of the optimizer unchanged.
C28_FitnessPure ==
    [][pc = "direct"
          => UNCHANGED <<tasks, employees, gaVars, optimization_history>>]_vars

\* C29: each generation goes Evaluate, Select, Vary, Evaluate, Replace: the
\* population that crossover and mutation are applied to has been evaluated
\* (the initial population before the first selection), and the
\* Hall-of-Fame update and the log append happen once per generation, after
\* the offspring of the generation have been evaluated.
C29_GenerationOrder ==
    /\ pc = "vary" => \A i \in DOMAIN pop : pop[i].fitness # NoFitness
    /\ pc \in {"vary", "evaluate", "select", "finish"} => Len(logbook) = gen
    /\ pc = "select" => \A i \in DOMAIN offspring : offspring[i].fitness # NoFitness

-----------------------------------------------------------------------------
(* Termination of build_schedule, checked under SpecBuild *)

\* C30: build_schedule terminates for every assignment list when the
\* calendar has a working weekday, finitely many holidays and every
\* daily_hours is positive: a call that has begun its loop returns.
C30_BuildScheduleTerminates ==
    (spc = "assign" /\ calendar_config.work_days_per_week # {}) ~> (spc = "built")

\* a call has returned after walks over weekends and holidays, on a calendar
\* with two working weekdays
C30_Witness ==
    /\ spc = "built" /\ Len(schedule) = 2
    /\ calendar_config.work_days_per_week = {0, 2}
    /\ calendar_config.holidays # {}
    /\ schedule[2].end_date > calendar_config.start_date + 14

====
